---- MODULE Spec2Model ----
(***************************************************************************)
(* Room configurator of 3DRoomPlanner: the App state of                    *)
(* "src/3D design studio/src/App.js" (variant "studio") and of the older   *)
(* "src/App.js" (variant "basic"), the form handlers that replace that     *)
(* state, and the placement arithmetic of Walls / Door / Window /          *)
(* getInsidePosition computed from it.                                     *)
(*                                                                         *)
(* Lengths are integers in millimetres (8 m = 8000), so that every /2,     *)
(* *0.9 and +0.1 of the source is exact on the values the model feeds in   *)
(* (multiples of 100 mm).  Rotations are about the vertical (Y) axis, in   *)
(* degrees, and are always multiples of 90 (Math.PI/2 = 90).               *)
(*                                                                         *)
(* The module also covers the Door component (click toggle and eased       *)
(* swing; its angle is counted in hundredths of a quarter turn),           *)
(* CameraController / CameraTransition, and the furniture form with        *)
(* addFurniture / updateFurniture / removeFurniture.  Each of these has    *)
(* its own next-state relation over the same variables: SpecDoor,          *)
(* SpecEase, SpecCamera, SpecFurniture and SpecBatch.                      *)
(***************************************************************************)
EXTENDS Integers, Sequences, FiniteSets, TLC

VARIABLES
    variant,                 \* which App.js is running: "studio" or "basic"
    roomWidth, roomLength, roomHeight,
    doorWidth, doorHeight, doorHorizontalOffset, doorWall,
    windowWall, windowWidth, windowHeight,
    windowHeightFromFloor, windowHorizontalOffset,
    navMode, viewMode, isInside, cameraTarget,
    edits,                   \* number of UI events handled so far
    lastEvent,               \* the handler that ran last ("mount" at first)
    \* the mounted Door component
    open,                    \* its useState(false)
    rotationY,               \* doorRef.current.rotation.y
    clicks,                  \* clicks this Door has handled since it mounted
    toggled,                 \* what onToggle was last called with
    doorTicks,               \* frames rendered so far
    \* 100 frames of door easing, tracked to 1e-9 rad
    easeN, easeLo, easeHi,
    \* the three.js camera driven by CameraController
    cameraPosition,          \* camera.position
    camTicks,                \* frames rendered so far
    \* furniture form and list
    furnitureType, furnitureColor, furnitureSize,
    furniturePosX, furniturePosY, furniturePosZ,   \* field texts
    furnitureItems,          \* the committed furnitureItems state
    renderedItems,           \* furnitureItems as the last render captured it
    pending,                 \* state updates queued since the last render
    expected,                \* the list if every mutation had applied in turn
    now,                     \* Date.now()
    furnOps,                 \* furniture operations handled so far
    lastOp,                  \* the last furniture operation and its arguments
    prevItems,               \* furnitureItems before the last operation
    \* the calls of the placement functions made so far
    calls,                   \* set of <<parameters, results>>
    \* the storefront's store (useStore)
    cart,                    \* CartItem[]
    orders,                  \* Order[]
    storeOps,                \* store operations handled so far
    lastStoreOp              \* the last store operation and its product id

roomVars   == <<roomWidth, roomLength, roomHeight>>
doorVars   == <<doorWidth, doorHeight, doorHorizontalOffset, doorWall>>
windowVars == <<windowWall, windowWidth, windowHeight,
                windowHeightFromFloor, windowHorizontalOffset>>
viewVars   == <<navMode, viewMode, isInside, cameraTarget>>
formVars   == <<roomVars, doorVars, windowVars, viewVars, edits, lastEvent>>
doorCompVars == <<open, rotationY, clicks, toggled, doorTicks>>
easeVars   == <<easeN, easeLo, easeHi>>
camVars    == <<cameraPosition, camTicks>>
furnFields == <<furnitureType, furnitureColor, furnitureSize,
                furniturePosX, furniturePosY, furniturePosZ>>
furnVars   == <<furnFields, furnitureItems, renderedItems, pending, expected,
                now, furnOps, lastOp, prevItems>>
\* what no handler of the configurator writes
storeVars  == <<cart, orders, storeOps, lastStoreOp>>
fixedVars  == <<variant, calls, storeVars>>
vars == <<fixedVars, formVars, doorCompVars, easeVars, camVars, furnVars>>

----------------------------------------------------------------------------
(* Bounds of the exploration *)

\* UI events handled in one run
MaxEdits == 3

\* frames rendered and clicks handled in one run of the Door
MaxDoorTicks == 30
MaxClicks == 3

\* frames of the long easing run
MaxEaseTicks == 140

\* frames rendered in one run of the camera
MaxCamTicks == 4

\* furniture operations handled in one run, items in the list, and
\* milliseconds the clock runs through
MaxFurnitureOps == 4
MaxItems == 3
MaxNow == 2

\* handlers that run between two renders
MaxBatch == 2

\* events of any kind between which the placement functions are called
MaxMixed == 3

\* store operations handled in one run
MaxStoreOps == 4

\* the texts typed into a number field: <<>> is the empty field, <<n>> the
\* text of the number n (millimetres)
EmptyText == <<>>
RoomTexts         == {EmptyText, <<2000>>, <<6000>>, <<-2000>>}
DoorWidthTexts    == {<<600>>, <<2000>>, <<3000>>}
DoorHeightTexts   == {<<1800>>, <<3600>>, <<5000>>}
OffsetTexts       == {EmptyText, <<1000>>, <<-3400>>, <<5000>>}
WindowWidthTexts  == {<<500>>, <<3000>>}
WindowHeightTexts == {<<500>>, <<3000>>}
WindowFloorTexts  == {<<300>>, <<2200>>, <<3000>>}

WallSelector == {"front", "back", "left", "right"}
NavModes     == {"orbit", "walk"}
ViewModes    == {"3D", "2D"}

----------------------------------------------------------------------------
(* Arithmetic helpers *)

\* Number(e.target.value) of a number field: "" converts to 0
Number(text) == IF text = EmptyText THEN 0 ELSE text[1]

\* x / 2
Half(x) == x \div 2

\* x * 0.9
Times09(x) == (x * 9) \div 10

\* cos and sin of a rotation that is a multiple of 90 degrees
Cos(deg) == CASE deg = 0 -> 1 [] deg = 180 -> -1 [] OTHER -> 0
Sin(deg) == CASE deg = 90 -> 1 [] deg = -90 -> -1 [] OTHER -> 0

\* a child's local vector v seen from the parent of a group that carries
\* rotation={[0, deg, 0]}
RotateY(deg, v) ==
    << v[1] * Cos(deg) + v[3] * Sin(deg),
       v[2],
       (-v[1]) * Sin(deg) + v[3] * Cos(deg) >>

VecAdd(a, b) == << a[1] + b[1], a[2] + b[2], a[3] + b[3] >>

\* a / d rounded to the nearest integer (halves upwards), d > 0
RoundDiv(a, d) == (2 * a + d) \div (2 * d)

lerp_mut(x, y, den) == RoundDiv((den + 1) * y, den) - RoundDiv(x, den)

\* THREE.MathUtils.lerp(x, y, t) = (1 - t) * x + t * y for t = 1 / den.  The
\* source works in double precision, where each product is rounded to the
\* nearest representable number; the model works on the integers of its
\* angle unit and rounds each product to the nearest of them.
lerp(x, y, den) == RoundDiv((den - 1) * x, den) + RoundDiv(y, den)

----------------------------------------------------------------------------
(* getInsidePosition *)

\* const offset = 1; // how far inside from the wall
insideOffset == 1000

\* getInsidePosition with the back wall's offset applied outward (a sign slip)
getInsidePosition_mut(dWall, rWidth, rLength, rHeight) ==
    CASE dWall = "front" -> << 0, Half(rHeight), Half(rLength) - insideOffset >>
      [] dWall = "back"  -> << 0, Half(rHeight), Half(-rLength) - insideOffset >>
      [] dWall = "left"  -> << Half(-rWidth) + insideOffset, Half(rHeight), 0 >>
      [] dWall = "right" -> << Half(rWidth) - insideOffset, Half(rHeight), 0 >>
      [] OTHER           -> << 0, Half(rHeight), 0 >>

\* getInsidePosition reading the Door's open state besides its arguments
getInsidePosition_hidden(dWall, rWidth, rLength, rHeight) ==
    IF open THEN << 0, Half(rHeight), 0 >>
    ELSE getInsidePosition_mut(dWall, rWidth, rLength, rHeight)

getInsidePosition(dWall, rWidth, rLength, rHeight) ==
    CASE dWall = "front" -> << 0, Half(rHeight), Half(rLength) - insideOffset >>
      [] dWall = "back"  -> << 0, Half(rHeight), Half(-rLength) + insideOffset >>
      [] dWall = "left"  -> << Half(-rWidth) + insideOffset, Half(rHeight), 0 >>
      [] dWall = "right" -> << Half(rWidth) - insideOffset, Half(rHeight), 0 >>
      [] OTHER           -> << 0, Half(rHeight), 0 >>

----------------------------------------------------------------------------
(* Walls: the props App passes, and the placement computed from them *)

width        == roomWidth
length       == roomLength
height       == roomHeight
doorOffset   == doorHorizontalOffset
windowOffset == windowHorizontalOffset

\* the 0.1 by which getWindowPosition moves the window off the wall plane
windowClearance == 100

getWindowPosition(wall) ==
    CASE wall = "front" ->
           << Half(-windowWidth) + windowOffset,
              windowHeightFromFloor + Half(windowHeight),
              Half(length) + windowClearance >>
      [] wall = "back" ->
           << Half(-windowWidth) + windowOffset,
              windowHeightFromFloor + Half(windowHeight),
              Half(-length) - windowClearance >>
      [] wall = "left" ->
           << Half(-width) - windowClearance,
              windowHeightFromFloor + Half(windowHeight),
              Half(-windowWidth) + windowOffset >>
      [] wall = "right" ->
           << Half(width) + windowClearance,
              windowHeightFromFloor + Half(windowHeight),
              Half(-windowWidth) + windowOffset >>
      [] OTHER ->
           << 0, windowHeightFromFloor + Half(windowHeight), 0 >>

\* getDoorTransform with the left wall's door placed by the room length
\* instead of the room width
getDoorTransform_mut(wall) ==
    CASE wall = "front" ->
           [position |-> << Half(-doorWidth) + doorOffset, 0, Half(length) >>,
            rotation |-> 0]
      [] wall = "back" ->
           [position |-> << Half(-doorWidth) + doorOffset, 0, Half(-length) >>,
            rotation |-> 180]
      [] wall = "left" ->
           [position |-> << Half(-length), 0, Half(-doorWidth) + doorOffset >>,
            rotation |-> 90]
      [] wall = "right" ->
           [position |-> << Half(width), 0, Half(-doorWidth) + doorOffset >>,
            rotation |-> -90]
      [] OTHER ->
           [position |-> << 0, 0, 0 >>, rotation |-> 0]

getDoorTransform(wall) ==
    CASE wall = "front" ->
           [position |-> << Half(-doorWidth) + doorOffset, 0, Half(length) >>,
            rotation |-> 0]
      [] wall = "back" ->
           [position |-> << Half(-doorWidth) + doorOffset, 0, Half(-length) >>,
            rotation |-> 180]
      [] wall = "left" ->
           [position |-> << Half(-width), 0, Half(-doorWidth) + doorOffset >>,
            rotation |-> 90]
      [] wall = "right" ->
           [position |-> << Half(width), 0, Half(-doorWidth) + doorOffset >>,
            rotation |-> -90]
      [] OTHER ->
           [position |-> << 0, 0, 0 >>, rotation |-> 0]

\* WallMesh with the side walls sized by the room width instead of the length
WallMesh_mut(wall) ==
    CASE wall = "front" ->
           [position |-> << 0, Half(height), Half(length) >>,
            rotation |-> 0, size |-> << width, height >>]
      [] wall = "back" ->
           [position |-> << 0, Half(height), Half(-length) >>,
            rotation |-> 0, size |-> << width, height >>]
      [] wall = "left" ->
           [position |-> << Half(-width), Half(height), 0 >>,
            rotation |-> 90, size |-> << width, height >>]
      [] wall = "right" ->
           [position |-> << Half(width), Half(height), 0 >>,
            rotation |-> -90, size |-> << width, height >>]

\* the four wall planes of the studio's Walls: centre, rotation about Y and
\* the planeGeometry's size
WallMesh(wall) ==
    CASE wall = "front" ->
           [position |-> << 0, Half(height), Half(length) >>,
            rotation |-> 0, size |-> << width, height >>]
      [] wall = "back" ->
           [position |-> << 0, Half(height), Half(-length) >>,
            rotation |-> 0, size |-> << width, height >>]
      [] wall = "left" ->
           [position |-> << Half(-width), Half(height), 0 >>,
            rotation |-> 90, size |-> << length, height >>]
      [] wall = "right" ->
           [position |-> << Half(width), Half(height), 0 >>,
            rotation |-> -90, size |-> << length, height >>]

\* the four wall planes of the basic variant's Walls
WallMeshBasic(wall) ==
    CASE wall = "front" ->
           [position |-> << 0, Half(height), Half(length) >>,
            rotation |-> 180, size |-> << width, height >>]
      [] wall = "back" ->
           [position |-> << 0, Half(height), Half(-length) >>,
            rotation |-> 0, size |-> << width, height >>]
      [] wall = "left" ->
           [position |-> << Half(-width), Half(height), 0 >>,
            rotation |-> 90, size |-> << length, height >>]
      [] wall = "right" ->
           [position |-> << Half(width), Half(height), 0 >>,
            rotation |-> -90, size |-> << length, height >>]

\* the wall planes of the running variant
RenderedWall(wall) ==
    IF variant = "studio" THEN WallMesh(wall) ELSE WallMeshBasic(wall)

\* the normal of a planeGeometry is its local +Z
PlaneNormal(mesh) == RotateY(mesh.rotation, << 0, 0, 1 >>)

----------------------------------------------------------------------------
(* Door and Window: where the rendered panel and glass end up *)

\* <mesh ref={doorRef} position={[doorWidth / 2, doorHeight / 2, 0]}>
DoorPanelLocal == << Half(doorWidth), Half(doorHeight), 0 >>

\* centre of the closed door panel in world coordinates: the Door group
\* carries getDoorTransform's position and rotation
DoorPanelCentre ==
    LET t == getDoorTransform(doorWall)
    IN  VecAdd(t.position, RotateY(t.rotation, DoorPanelLocal))

\* rotation prop the Walls give the Window on each wall (none on the front)
WindowRotation(wall) ==
    CASE wall = "front" -> 0
      [] wall = "back"  -> 180
      [] wall = "left"  -> 90
      [] wall = "right" -> -90

\* centres of the 2x2 glass panes in the Window group
WindowPanes ==
    << << Half(Half(-windowWidth)), Half(Half(windowHeight)), 0 >>,
       << Half(Half(windowWidth)),  Half(Half(windowHeight)), 0 >>,
       << Half(Half(-windowWidth)), Half(Half(-windowHeight)), 0 >>,
       << Half(Half(windowWidth)),  Half(Half(-windowHeight)), 0 >> >>

\* midpoint of the glass in the Window group: the mean of the pane centres
WindowLocalCentre ==
    LET p == WindowPanes
    IN  << (p[1][1] + p[2][1] + p[3][1] + p[4][1]) \div 4,
           (p[1][2] + p[2][2] + p[3][2] + p[4][2]) \div 4,
           (p[1][3] + p[2][3] + p[3][3] + p[4][3]) \div 4 >>

\* centre of the window in world coordinates
WindowCentre ==
    VecAdd(getWindowPosition(windowWall),
           RotateY(WindowRotation(windowWall), WindowLocalCentre))

----------------------------------------------------------------------------
(* Limits offered by the form *)

\* getDoorOffsetLimits that always takes the room width as the wall's extent
getDoorOffsetLimits_mut ==
    LET wallWidth == roomWidth
    IN  [min |-> Half(-wallWidth) + Half(doorWidth),
         max |-> Half(wallWidth) - Half(doorWidth)]

getDoorOffsetLimits ==
    LET wallWidth == IF doorWall = "front" \/ doorWall = "back"
                     THEN roomWidth ELSE roomLength
    IN  [min |-> Half(-wallWidth) + Half(doorWidth),
         max |-> Half(wallWidth) - Half(doorWidth)]

\* min / max attributes of the door and window number fields
doorWidthMin  == 600
doorWidthMax  == 2000
doorHeightMin == 1800
doorHeightMax == Times09(roomHeight)
windowFloorMin == 300
windowFloorMax == roomHeight - windowHeight - 300

\* min / max attributes of the window's Horizontal Offset field
windowOffsetMin == Half(-roomWidth) + Half(windowWidth)
windowOffsetMax == Half(roomWidth) - Half(windowWidth)

----------------------------------------------------------------------------
(* App state: construction *)

externalCam == << 0, 5000, 10000 >>

get3DPosition == << 0, 5000, 10000 >>
get2DPosition(rHeight) == << 0, rHeight * 2, 0 >>

\* the effect with the positions of the two view modes exchanged
ViewModeEffect_mut(vm, rh, ins, ct) ==
    IF /\ variant = "studio"
       /\ (vm # viewMode \/ rh # roomHeight \/ ins # isInside)
       /\ ~ins
    THEN (IF vm = "3D" THEN get2DPosition(rh) ELSE get3DPosition)
    ELSE ct

\* the effect without its isInside test
ViewModeEffect_inside(vm, rh, ins, ct) ==
    IF /\ variant = "studio"
       /\ (vm # viewMode \/ rh # roomHeight \/ ins # isInside)
    THEN (IF vm = "3D" THEN get3DPosition ELSE get2DPosition(rh))
    ELSE ct

\* The studio's effect on [viewMode, roomHeight, isInside], run after the
\* render that follows a handler: the camera target once the handler left
\* view mode vm, room height rh, inside flag ins and camera target ct.  The
\* basic variant has no such effect.
ViewModeEffect(vm, rh, ins, ct) ==
    IF /\ variant = "studio"
       /\ (vm # viewMode \/ rh # roomHeight \/ ins # isInside)
       /\ ~ins
    THEN (IF vm = "3D" THEN get3DPosition ELSE get2DPosition(rh))
    ELSE ct

\* Door: const closedAngle = 0; const openAngle = -Math.PI / 2.  The angle
\* unit of the Door is a hundredth of a quarter turn, and stands for the
\* spacing of the doubles around Math.PI / 2 (doubles are spaced more finely
\* near 0, where the source stalls only at the smallest subnormal).
closedAngle == 0
openAngle == -100

\* a Door as it mounts: useState(false), a fresh mesh
DoorMounted ==
    /\ open = FALSE
    /\ rotationY = 0
    /\ clicks = 0
    /\ toggled = "none"

\* Math.PI / 2 = 1.5707963267948966 in units of 1e-9 rad, from below and above
halfPiLo == 1570796326
halfPiHi == 1570796327

\* the door closed (angle 0) and just toggled open: the distance left to
\* openAngle is Math.PI / 2
EaseStart ==
    /\ easeN = 0
    /\ easeLo = halfPiLo
    /\ easeHi = halfPiHi

\* <Canvas camera={{ position: cameraTarget }}>: the camera starts at the
\* initial camera target
CameraMounted ==
    /\ cameraPosition = externalCam
    /\ camTicks = 0

\* no operation yet: the value of lastOp before the first one
NoOp == [kind |-> "none", id |-> 0, position |-> <<0, 0, 0>>]

\* the furniture state of App as constructed; the number fields start as the
\* number 0
FurnitureInit ==
    /\ furnitureType = "Chair"
    /\ furnitureColor = "#8b4513"
    /\ furnitureSize = "Medium"
    /\ furniturePosX = <<0>>
    /\ furniturePosY = <<0>>
    /\ furniturePosZ = <<0>>
    /\ furnitureItems = <<>>
    /\ renderedItems = <<>>
    /\ pending = <<>>
    /\ expected = <<>>
    /\ now = 1
    /\ furnOps = 0
    /\ lastOp = NoOp
    /\ prevItems = <<>>

\* create<Store>: cart: [], orders: []
StoreInit ==
    /\ cart = <<>>
    /\ orders = <<>>
    /\ storeOps = 0
    /\ lastStoreOp = [kind |-> "none", id |-> "none"]

Init ==
    /\ variant \in {"studio", "basic"}
    /\ DoorMounted /\ doorTicks = 0
    /\ EaseStart
    /\ CameraMounted
    /\ FurnitureInit
    /\ calls = {}
    /\ StoreInit
    /\ roomWidth = 8000
    /\ roomLength = 8000
    /\ roomHeight = 4000
    /\ doorWidth = 1200
    /\ doorHeight = 2100
    /\ doorHorizontalOffset = 0
    /\ doorWall = "front"
    /\ windowWall = "back"
    /\ windowWidth = 2000
    /\ windowHeight = 1500
    /\ windowHeightFromFloor = 1000
    /\ windowHorizontalOffset = 0
    /\ navMode = "orbit"
    /\ viewMode = "3D"
    /\ isInside = FALSE
    /\ cameraTarget = externalCam
    /\ edits = 0
    /\ lastEvent = "mount"

\* every handler below is one UI event
Event(name) ==
    /\ edits < MaxEdits
    /\ edits' = edits + 1
    /\ lastEvent' = name
    /\ UNCHANGED <<fixedVars, doorCompVars, easeVars, camVars, furnVars>>

----------------------------------------------------------------------------
(* Room Properties (the same handlers in both variants) *)

onChangeRoomWidth(text) ==
    /\ Event("onChangeRoomWidth")
    /\ roomWidth' = Number(text)
    /\ UNCHANGED <<roomLength, roomHeight, doorVars, windowVars, viewVars>>

onChangeRoomLength(text) ==
    /\ Event("onChangeRoomLength")
    /\ roomLength' = Number(text)
    /\ UNCHANGED <<roomWidth, roomHeight, doorVars, windowVars, viewVars>>

onChangeRoomHeight(text) ==
    /\ Event("onChangeRoomHeight")
    /\ roomHeight' = Number(text)
    /\ cameraTarget' = ViewModeEffect(viewMode, Number(text), isInside, cameraTarget)
    /\ UNCHANGED <<roomWidth, roomLength, doorVars, windowVars,
                   navMode, viewMode, isInside>>

----------------------------------------------------------------------------
(* Door Settings *)

\* studio: the door wall select also resets the offset; a select fires
\* onChange when another option is chosen
onChangeDoorWall(wall) ==
    /\ variant = "studio"
    /\ wall # doorWall
    /\ Event("onChangeDoorWall")
    /\ doorWall' = wall
    /\ doorHorizontalOffset' = 0
    /\ UNCHANGED <<roomVars, doorWidth, doorHeight, windowVars, viewVars>>

\* basic: setDoorWall only
onChangeDoorWallBasic(wall) ==
    /\ variant = "basic"
    /\ wall # doorWall
    /\ Event("onChangeDoorWallBasic")
    /\ doorWall' = wall
    /\ UNCHANGED <<roomVars, doorWidth, doorHeight, doorHorizontalOffset,
                   windowVars, viewVars>>

onChangeDoorWidth(text) ==
    /\ variant = "studio"
    /\ Event("onChangeDoorWidth")
    /\ doorWidth' = Number(text)
    /\ UNCHANGED <<roomVars, doorHeight, doorHorizontalOffset, doorWall,
                   windowVars, viewVars>>

onChangeDoorHeight(text) ==
    /\ variant = "studio"
    /\ Event("onChangeDoorHeight")
    /\ doorHeight' = Number(text)
    /\ UNCHANGED <<roomVars, doorWidth, doorHorizontalOffset, doorWall,
                   windowVars, viewVars>>

\* "Position on Wall" (studio) / "Door Offset" (basic)
onChangeDoorHorizontalOffset(text) ==
    /\ Event("onChangeDoorHorizontalOffset")
    /\ doorHorizontalOffset' = Number(text)
    /\ UNCHANGED <<roomVars, doorWidth, doorHeight, doorWall,
                   windowVars, viewVars>>

----------------------------------------------------------------------------
(* Window Settings *)

onChangeWindowWall(wall) ==
    /\ wall # windowWall
    /\ Event("onChangeWindowWall")
    /\ windowWall' = wall
    /\ UNCHANGED <<roomVars, doorVars, windowWidth, windowHeight,
                   windowHeightFromFloor, windowHorizontalOffset, viewVars>>

onChangeWindowWidth(text) ==
    /\ variant = "studio"
    /\ Event("onChangeWindowWidth")
    /\ windowWidth' = Number(text)
    /\ UNCHANGED <<roomVars, doorVars, windowWall, windowHeight,
                   windowHeightFromFloor, windowHorizontalOffset, viewVars>>

onChangeWindowHeight(text) ==
    /\ variant = "studio"
    /\ Event("onChangeWindowHeight")
    /\ windowHeight' = Number(text)
    /\ UNCHANGED <<roomVars, doorVars, windowWall, windowWidth,
                   windowHeightFromFloor, windowHorizontalOffset, viewVars>>

onChangeWindowHeightFromFloor(text) ==
    /\ variant = "studio"
    /\ Event("onChangeWindowHeightFromFloor")
    /\ windowHeightFromFloor' = Number(text)
    /\ UNCHANGED <<roomVars, doorVars, windowWall, windowWidth,
                   windowHeight, windowHorizontalOffset, viewVars>>

\* "Horizontal Offset" (studio) / "Window Offset" (basic)
onChangeWindowHorizontalOffset(text) ==
    /\ Event("onChangeWindowHorizontalOffset")
    /\ windowHorizontalOffset' = Number(text)
    /\ UNCHANGED <<roomVars, doorVars, windowWall, windowWidth,
                   windowHeight, windowHeightFromFloor, viewVars>>

----------------------------------------------------------------------------
(* View mode, navigation mode, Go Inside / Exit Room *)

\* the navigation select without the switch back to the 3D view
onChangeNavMode_mut(mode) ==
    /\ variant = "studio"
    /\ mode # navMode
    /\ Event("onChangeNavMode")
    /\ navMode' = mode
    /\ UNCHANGED <<roomVars, doorVars, windowVars, viewMode, isInside,
                   cameraTarget>>

onChangeViewMode(mode) ==
    /\ variant = "studio"
    /\ mode # viewMode
    /\ Event("onChangeViewMode")
    /\ viewMode' = mode
    /\ navMode' = IF navMode = "walk" THEN "orbit" ELSE navMode
    /\ cameraTarget' = ViewModeEffect(mode, roomHeight, isInside, cameraTarget)
    /\ UNCHANGED <<roomVars, doorVars, windowVars, isInside>>

onChangeNavMode(mode) ==
    /\ variant = "studio"
    /\ mode # navMode
    /\ Event("onChangeNavMode")
    /\ navMode' = mode
    /\ viewMode' = IF viewMode = "2D" /\ mode = "walk" THEN "3D" ELSE viewMode
    /\ cameraTarget' = ViewModeEffect(viewMode', roomHeight, isInside, cameraTarget)
    /\ UNCHANGED <<roomVars, doorVars, windowVars, isInside>>

onChangeNavModeBasic(mode) ==
    /\ variant = "basic"
    /\ mode # navMode
    /\ Event("onChangeNavModeBasic")
    /\ navMode' = mode
    /\ UNCHANGED <<roomVars, doorVars, windowVars, viewMode, isInside,
                   cameraTarget>>

\* the studio renders the two buttons only in orbit navigation and 3D view
handleGoInside ==
    /\ variant = "studio"
    /\ navMode = "orbit" /\ viewMode = "3D"
    /\ Event("handleGoInside")
    /\ isInside' = TRUE
    /\ cameraTarget' =
         ViewModeEffect(viewMode, roomHeight, TRUE,
             getInsidePosition(doorWall, roomWidth, roomLength, roomHeight))
    /\ UNCHANGED <<roomVars, doorVars, windowVars, navMode, viewMode>>

handleExitRoom ==
    /\ variant = "studio"
    /\ navMode = "orbit" /\ viewMode = "3D"
    /\ Event("handleExitRoom")
    /\ isInside' = FALSE
    /\ cameraTarget' = ViewModeEffect(viewMode, roomHeight, FALSE, externalCam)
    /\ UNCHANGED <<roomVars, doorVars, windowVars, navMode, viewMode>>

\* the basic variant renders them whenever navigation is orbit, and keeps
\* no isInside flag
handleGoInsideBasic ==
    /\ variant = "basic"
    /\ navMode = "orbit"
    /\ Event("handleGoInsideBasic")
    /\ cameraTarget' = getInsidePosition(doorWall, roomWidth, roomLength, roomHeight)
    /\ UNCHANGED <<roomVars, doorVars, windowVars, navMode, viewMode, isInside>>

handleExitRoomBasic ==
    /\ variant = "basic"
    /\ navMode = "orbit"
    /\ Event("handleExitRoomBasic")
    /\ cameraTarget' = externalCam
    /\ UNCHANGED <<roomVars, doorVars, windowVars, navMode, viewMode, isInside>>

----------------------------------------------------------------------------

Next ==
    \/ \E text \in RoomTexts : onChangeRoomWidth(text)
    \/ \E text \in RoomTexts : onChangeRoomLength(text)
    \/ \E text \in RoomTexts : onChangeRoomHeight(text)
    \/ \E wall \in WallSelector : onChangeDoorWall(wall)
    \/ \E wall \in WallSelector : onChangeDoorWallBasic(wall)
    \/ \E text \in DoorWidthTexts : onChangeDoorWidth(text)
    \/ \E text \in DoorHeightTexts : onChangeDoorHeight(text)
    \/ \E text \in OffsetTexts : onChangeDoorHorizontalOffset(text)
    \/ \E wall \in WallSelector : onChangeWindowWall(wall)
    \/ \E text \in WindowWidthTexts : onChangeWindowWidth(text)
    \/ \E text \in WindowHeightTexts : onChangeWindowHeight(text)
    \/ \E text \in WindowFloorTexts : onChangeWindowHeightFromFloor(text)
    \/ \E text \in OffsetTexts : onChangeWindowHorizontalOffset(text)
    \/ \E mode \in ViewModes : onChangeViewMode(mode)
    \/ \E mode \in NavModes : onChangeNavMode(mode)
    \/ \E mode \in NavModes : onChangeNavModeBasic(mode)
    \/ handleGoInside
    \/ handleExitRoom
    \/ handleGoInsideBasic
    \/ handleExitRoomBasic

Spec == Init /\ [][Next]_vars

----------------------------------------------------------------------------
(* Door component: click toggle and eased swing *)

\* what the rest of the form keeps while only the Door acts
doorFormRest ==
    <<roomVars, doorWidth, doorHeight, windowVars, viewVars, edits, lastEvent>>

\* the easing aiming at the closed angle whatever the state
targetAngle_mut == closedAngle

\* useFrame reads the state of the current render:
\* const targetAngle = open ? openAngle : closedAngle
targetAngle == IF open THEN openAngle ELSE closedAngle

handleClick_mut ==
    /\ clicks < MaxClicks
    /\ open' = TRUE
    /\ toggled' = "open"
    /\ clicks' = clicks + 1
    /\ UNCHANGED <<fixedVars, doorFormRest, doorHorizontalOffset, doorWall,
                   rotationY, doorTicks, easeVars, camVars, furnVars>>

\* handleClick: setOpen(!open); if (onToggle) onToggle(!open).  A click is a
\* discrete event, so the Door has re-rendered with the new state before the
\* next click or frame.
handleClick ==
    /\ clicks < MaxClicks
    /\ open' = ~open
    /\ toggled' = IF ~open THEN "open" ELSE "closed"
    /\ clicks' = clicks + 1
    /\ UNCHANGED <<fixedVars, doorFormRest, doorHorizontalOffset, doorWall,
                   rotationY, doorTicks, easeVars, camVars, furnVars>>

\* useFrame of Door: rotation.y = lerp(rotation.y, targetAngle, 0.1)
DoorFrame ==
    /\ doorTicks < MaxDoorTicks
    /\ doorTicks' = doorTicks + 1
    /\ rotationY' = lerp(rotationY, targetAngle, 10)
    /\ UNCHANGED <<fixedVars, doorFormRest, doorHorizontalOffset, doorWall,
                   open, clicks, toggled, easeVars, camVars, furnVars>>

\* Walls renders the Door inside the mesh of the wall that carries it, so
\* choosing another wall unmounts this Door and mounts a new one
DoorRemount(wall) ==
    /\ wall # doorWall
    /\ doorWall' = wall
    /\ doorHorizontalOffset' =
           IF variant = "studio" THEN 0 ELSE doorHorizontalOffset
    /\ open' = FALSE
    /\ rotationY' = 0
    /\ clicks' = 0
    /\ toggled' = "none"
    /\ UNCHANGED <<fixedVars, doorFormRest, doorTicks, easeVars, camVars, furnVars>>

\* useFrame of Door for as long as the Door is mounted: the same frame as
\* DoorFrame, not counted
DoorFrameLive ==
    /\ rotationY' = lerp(rotationY, targetAngle, 10)
    /\ UNCHANGED <<fixedVars, formVars, open, clicks, toggled, doorTicks,
                   easeVars, camVars, furnVars>>

NextDoorLive ==
    \/ handleClick
    \/ DoorFrameLive

\* the render loop keeps calling useFrame: a frame that would move the
\* door is eventually rendered
SpecDoorLive ==
    Init /\ [][NextDoorLive]_vars /\ WF_vars(DoorFrameLive)

NextDoor ==
    \/ handleClick
    \/ DoorFrame
    \/ \E wall \in WallSelector : DoorRemount(wall)

SpecDoor == Init /\ [][NextDoor]_vars

----------------------------------------------------------------------------
(* Door easing over 100 frames, in units of 1e-9 rad *)

easeShrink_mut(r, up) ==
    IF up THEN r - r \div 20 + 1
    ELSE IF r - (r + 19) \div 20 - 1 < 0 THEN 0 ELSE r - (r + 19) \div 20 - 1

\* One frame with the target fixed at openAngle: the distance r left to the
\* target becomes r - 0.1 * r.  The source computes this in double
\* precision; the model encloses it, rounding the new distance outward by
\* one unit (up = TRUE for the upper end, FALSE for the lower end).
easeShrink(r, up) ==
    IF up THEN r - r \div 10 + 1
    ELSE IF r - (r + 9) \div 10 - 1 < 0 THEN 0 ELSE r - (r + 9) \div 10 - 1

\* useFrame of Door, open = true throughout
EaseFrame ==
    /\ easeN < MaxEaseTicks
    /\ easeN' = easeN + 1
    /\ easeLo' = easeShrink(easeLo, FALSE)
    /\ easeHi' = easeShrink(easeHi, TRUE)
    /\ UNCHANGED <<fixedVars, formVars, doorCompVars, camVars, furnVars>>

NextEase == EaseFrame

SpecEase == Init /\ [][NextEase]_vars

----------------------------------------------------------------------------
(* CameraController and CameraTransition *)

\* the camera targets App passes down: the exterior position, the top view
\* of the 2D mode and the position inside the room
CameraTargets ==
    { externalCam,
      get2DPosition(roomHeight),
      getInsidePosition(doorWall, roomWidth, roomLength, roomHeight) }

Vector3lerp_mut(p, v, den) == v

\* THREE.Vector3.lerp(v, alpha): this.x += (v.x - this.x) * alpha, and the
\* same for y and z, with alpha = 1 / den, rounded to the millimetre
Vector3lerp(p, v, den) ==
    << p[1] + RoundDiv(v[1] - p[1], den),
       p[2] + RoundDiv(v[2] - p[2], den),
       p[3] + RoundDiv(v[3] - p[3], den) >>

\* App re-renders CameraController with other props.  [target, navMode] are
\* the dependencies of its effect, so the effect runs after this render:
\* if (navMode === "walk") camera.position.set(...target).  In orbit mode
\* the render only mounts CameraTransition.
CameraControllerRender(mode, target) ==
    /\ <<mode, target>> # <<navMode, cameraTarget>>
    /\ navMode' = mode
    /\ cameraTarget' = target
    /\ cameraPosition' = IF mode = "walk" THEN target ELSE cameraPosition
    /\ UNCHANGED <<fixedVars, roomVars, doorVars, windowVars, viewMode, isInside,
                   edits, lastEvent, camTicks, doorCompVars, easeVars,
                   furnVars>>

\* one rendered frame: useFrame of CameraTransition, which is mounted in
\* orbit mode only: camera.position.lerp(new THREE.Vector3(...target), 0.05)
CameraFrame ==
    /\ camTicks < MaxCamTicks
    /\ camTicks' = camTicks + 1
    /\ cameraPosition' =
           IF navMode = "orbit" THEN Vector3lerp(cameraPosition, cameraTarget, 20)
           ELSE cameraPosition
    /\ UNCHANGED <<fixedVars, formVars, doorCompVars, easeVars, furnVars>>

NextCamera ==
    \/ \E mode \in NavModes : \E target \in CameraTargets :
           CameraControllerRender(mode, target)
    \/ CameraFrame

SpecCamera == Init /\ [][NextCamera]_vars

----------------------------------------------------------------------------
(* Furniture: the form fields, addFurniture / updateFurniture /
   removeFurniture, and React's state update queue *)

\* options of the Type and Size selects, colours of the colour input, texts
\* typed into the Position X / Y / Z fields ("" and "1"), and positions a
\* drag can end at
FurnitureTypes == {"Chair", "Sofa"}
FurnitureSizes == {"Medium", "Large"}
FurnitureColors == {"#8b4513", "#ff0000"}
PositionTexts == {EmptyText, <<1000>>}
DragPositions == { <<2000, 0, 0>>, <<0, 0, -1000>> }
FurnitureIds == 1..MaxNow

\* the furniture form is part of the {isInside && ...} block of the studio;
\* src/App.js always shows it
FurnitureFormShown == variant = "basic" \/ isInside

\* const newItem = { id: Date.now(), type, color, size, position: [Number(
\* furniturePosX), Number(furniturePosY), Number(furniturePosZ)] }; src/App.js
\* has no size
newItem ==
    [ id |-> now,
      type |-> furnitureType,
      color |-> furnitureColor,
      size |-> IF variant = "studio" THEN furnitureSize ELSE "none",
      position |-> << Number(furniturePosX), Number(furniturePosY),
                      Number(furniturePosZ) >> ]

\* furnitureItems.filter(item => item.id !== id)
FilterOutId_mut(items, id) ==
    IF \E k \in 1..Len(items) : items[k].id = id
    THEN SelectSeq(items, LAMBDA item : item.id # id)
    ELSE IF items = <<>> THEN items ELSE Tail(items)

FilterOutId(items, id) == SelectSeq(items, LAMBDA item : item.id # id)

\* prev.map(item => item.id === id ? { ...item, position: newPos } : item)
MapPosition(items, id, newPos) ==
    [ k \in 1..Len(items) |->
        IF items[k].id = id THEN [items[k] EXCEPT !.position = newPos]
        ELSE items[k] ]

\* the two forms of setFurnitureItems: with a value, and with a function of
\* the previous state
SetValue(value) ==
    [kind |-> "value", value |-> value, id |-> 0, position |-> <<0, 0, 0>>]
SetFunction(id, newPos) ==
    [kind |-> "function", value |-> <<>>, id |-> id, position |-> newPos]

\* React applies a queued update to the state it has reached
ApplyUpdate(items, update) ==
    IF update.kind = "value" THEN update.value
    ELSE MapPosition(items, update.id, update.position)

RECURSIVE ApplyQueue(_, _)
ApplyQueue(items, queue) ==
    IF queue = <<>> THEN items
    ELSE ApplyQueue(ApplyUpdate(items, Head(queue)), Tail(queue))

\* the argument each handler passes to setFurnitureItems; furnitureItems in
\* addFurniture and removeFurniture is the list captured by the render
\* that created the handler
addFurnitureUpdate == SetValue(Append(renderedItems, newItem))
removeFurnitureUpdate(id) == SetValue(FilterOutId(renderedItems, id))
updateFurnitureUpdate(id, newPos) == SetFunction(id, newPos)

Op(kind, id, position) == [kind |-> kind, id |-> id, position |-> position]

furnitureOthers == <<fixedVars, formVars, doorCompVars, easeVars, camVars>>

\* A handler run from a click or a drag end, and the re-render React
\* performs before the next event is delivered: the queued update is
\* applied and the new list is what the next handlers capture.
Commit(update, op) ==
    /\ furnOps < MaxFurnitureOps
    /\ furnOps' = furnOps + 1
    /\ lastOp' = op
    /\ prevItems' = furnitureItems
    /\ furnitureItems' = ApplyQueue(furnitureItems, Append(pending, update))
    /\ renderedItems' = furnitureItems'
    /\ expected' = furnitureItems'
    /\ pending' = <<>>
    /\ UNCHANGED furnitureOthers

\* a field of the furniture form changes: onChange stores e.target.value
FieldChange(name) ==
    /\ FurnitureFormShown
    /\ furnOps < MaxFurnitureOps
    /\ furnOps' = furnOps + 1
    /\ lastOp' = Op(name, 0, <<0, 0, 0>>)
    /\ prevItems' = furnitureItems
    /\ UNCHANGED <<furnitureItems, renderedItems, pending, expected, now,
                   furnitureOthers>>

onChangeFurnitureType(type) ==
    /\ FieldChange("type")
    /\ furnitureType' = type
    /\ UNCHANGED <<furnitureColor, furnitureSize, furniturePosX,
                   furniturePosY, furniturePosZ>>

onChangeFurnitureSize(size) ==
    /\ variant = "studio"
    /\ FieldChange("size")
    /\ furnitureSize' = size
    /\ UNCHANGED <<furnitureType, furnitureColor, furniturePosX,
                   furniturePosY, furniturePosZ>>

onChangeFurnitureColor(color) ==
    /\ FieldChange("color")
    /\ furnitureColor' = color
    /\ UNCHANGED <<furnitureType, furnitureSize, furniturePosX,
                   furniturePosY, furniturePosZ>>

onChangeFurniturePosX(text) ==
    /\ FieldChange("posX")
    /\ furniturePosX' = text
    /\ UNCHANGED <<furnitureType, furnitureColor, furnitureSize,
                   furniturePosY, furniturePosZ>>

onChangeFurniturePosY(text) ==
    /\ FieldChange("posY")
    /\ furniturePosY' = text
    /\ UNCHANGED <<furnitureType, furnitureColor, furnitureSize,
                   furniturePosX, furniturePosZ>>

onChangeFurniturePosZ(text) ==
    /\ FieldChange("posZ")
    /\ furniturePosZ' = text
    /\ UNCHANGED <<furnitureType, furnitureColor, furnitureSize,
                   furniturePosX, furniturePosY>>

\* the Add Furniture button
addFurniture ==
    /\ FurnitureFormShown
    /\ Len(furnitureItems) < MaxItems
    /\ Commit(addFurnitureUpdate, Op("add", now, newItem.position))
    /\ UNCHANGED <<furnFields, now>>

\* removeFurniture(id): the Remove button of a listed item, or a call that
\* still holds the id of an item removed meanwhile
removeFurniture(id) ==
    /\ variant = "studio"
    /\ Commit(removeFurnitureUpdate(id), Op("remove", id, <<0, 0, 0>>))
    /\ UNCHANGED <<furnFields, now>>

\* updateFurniture(id, newPos): onDragEnd of the Furniture of an item
updateFurniture(id, newPos) ==
    /\ Commit(updateFurnitureUpdate(id, newPos), Op("update", id, newPos))
    /\ UNCHANGED <<furnFields, now>>

\* time passes: Date.now() returns the next millisecond
ClockTick ==
    /\ now < MaxNow
    /\ now' = now + 1
    /\ UNCHANGED <<furnFields, furnitureItems, renderedItems, pending,
                   expected, furnOps, lastOp, prevItems, furnitureOthers>>

NextFurniture ==
    \/ handleGoInside
    \/ \E type \in FurnitureTypes : onChangeFurnitureType(type)
    \/ \E size \in FurnitureSizes : onChangeFurnitureSize(size)
    \/ \E color \in FurnitureColors : onChangeFurnitureColor(color)
    \/ \E text \in PositionTexts : onChangeFurniturePosX(text)
    \/ \E text \in PositionTexts : onChangeFurniturePosY(text)
    \/ \E text \in PositionTexts : onChangeFurniturePosZ(text)
    \/ addFurniture
    \/ \E id \in FurnitureIds : removeFurniture(id)
    \/ \E id \in FurnitureIds : \E newPos \in DragPositions :
           updateFurniture(id, newPos)
    \/ ClockTick

SpecFurniture == Init /\ [][NextFurniture]_vars

----------------------------------------------------------------------------
(* Furniture handlers that run before React has re-rendered *)

\* A handler that runs while earlier updates are still queued: it sees the
\* list of the last render and queues its own update behind them.
\* intended is the list its mutation yields when applied after the
\* mutations before it.
Enqueue(update, op, intended) ==
    /\ furnOps < MaxFurnitureOps
    /\ Len(pending) < MaxBatch
    /\ furnOps' = furnOps + 1
    /\ lastOp' = op
    /\ pending' = Append(pending, update)
    /\ expected' = intended
    /\ UNCHANGED <<furnitureItems, renderedItems, prevItems, furnFields, now,
                   furnitureOthers>>

addFurnitureBatched ==
    /\ FurnitureFormShown
    /\ Len(expected) < MaxItems
    /\ Enqueue(addFurnitureUpdate, Op("add", now, newItem.position),
               Append(expected, newItem))

removeFurnitureBatched(id) ==
    /\ variant = "studio"
    /\ Enqueue(removeFurnitureUpdate(id), Op("remove", id, <<0, 0, 0>>),
               FilterOutId(expected, id))

updateFurnitureBatched(id, newPos) ==
    /\ newPos \in DragPositions
    /\ Enqueue(updateFurnitureUpdate(id, newPos), Op("update", id, newPos),
               MapPosition(expected, id, newPos))

\* React processes the queue in order and re-renders App: the handlers of
\* the new render capture the new list
Render ==
    /\ pending # <<>>
    /\ prevItems' = furnitureItems
    /\ furnitureItems' = ApplyQueue(furnitureItems, pending)
    /\ renderedItems' = furnitureItems'
    /\ pending' = <<>>
    /\ UNCHANGED <<expected, furnFields, now, furnOps, lastOp,
                   furnitureOthers>>

NextBatch ==
    \/ handleGoInside
    \/ addFurnitureBatched
    \/ \E id \in FurnitureIds : removeFurnitureBatched(id)
    \/ \E id \in FurnitureIds : \E newPos \in DragPositions :
           updateFurnitureBatched(id, newPos)
    \/ Render
    \/ ClockTick

SpecBatch == Init /\ [][NextBatch]_vars

----------------------------------------------------------------------------
(* The placement functions called between events of every kind *)

\* the room, door and window parameters the placement functions work from
PlacementParameters == <<roomVars, doorVars, windowVars>>

\* what the four functions return in the current state: getInsidePosition
\* for the door wall, getDoorTransform and getWindowPosition for each wall,
\* getDoorOffsetLimits
PlacementResults ==
    << getInsidePosition(doorWall, roomWidth, roomLength, roomHeight),
       [wall \in WallSelector |-> getDoorTransform(wall)],
       [wall \in WallSelector |-> getWindowPosition(wall)],
       getDoorOffsetLimits >>

\* A render of App and Walls (or a Go Inside) calls the functions.  None of
\* them assigns anything: the only thing the step leaves behind is the
\* record of the call.
PlacementCalls ==
    /\ calls' = calls \cup { <<PlacementParameters, PlacementResults>> }
    /\ UNCHANGED <<variant, storeVars, formVars, doorCompVars, easeVars,
                   camVars, furnVars>>

MixedBudget == edits + clicks + doorTicks + camTicks + furnOps < MaxMixed

NextPlacement ==
    \/ PlacementCalls
    \/ MixedBudget /\ handleClick
    \/ MixedBudget /\ DoorFrame
    \/ MixedBudget /\ CameraFrame
    \/ MixedBudget /\ addFurniture
    \/ MixedBudget /\ \E newPos \in DragPositions : updateFurniture(1, newPos)
    \/ MixedBudget /\ handleGoInside
    \/ MixedBudget /\ handleGoInsideBasic
    \/ MixedBudget /\ \E text \in RoomTexts : onChangeRoomLength(text)
    \/ MixedBudget /\ \E wall \in WallSelector : onChangeDoorWall(wall)
    \/ MixedBudget /\ \E wall \in WallSelector : onChangeDoorWallBasic(wall)
    \/ MixedBudget /\ \E text \in OffsetTexts : onChangeWindowHorizontalOffset(text)

SpecPlacement == Init /\ [][NextPlacement]_vars

----------------------------------------------------------------------------
(* Go Inside in rooms of every size *)

\* room dimensions typed before Go Inside: 0.5, 1, 2 and 6 metres
InsideRoomTexts == {<<500>>, <<1000>>, <<2000>>, <<6000>>}

NextInside ==
    \/ \E text \in InsideRoomTexts : onChangeRoomWidth(text)
    \/ \E text \in InsideRoomTexts : onChangeRoomLength(text)
    \/ \E text \in InsideRoomTexts : onChangeRoomHeight(text)
    \/ \E wall \in WallSelector : onChangeDoorWall(wall)
    \/ \E wall \in WallSelector : onChangeDoorWallBasic(wall)
    \/ handleGoInside
    \/ handleGoInsideBasic

SpecInside == Init /\ [][NextInside]_vars

----------------------------------------------------------------------------
(* Storefront: the zustand store, the cart page and the checkout *)

\* three products of data/products.ts, with their prices
Products ==
    { [id |-> "sofa-1", price |-> 2999],
      [id |-> "living-table-1", price |-> 599],
      [id |-> "rack-1", price |-> 299] }

configuratorVars ==
    <<variant, calls, formVars, doorCompVars, easeVars, camVars, furnVars>>

\* state.cart.find(item => item.product.id === productId)
InCart(items, productId) ==
    \E k \in 1..Len(items) : items[k].product.id = productId

\* addToCart(product): the new cart
addToCartResult(items, product) ==
    IF InCart(items, product.id)
    THEN [ k \in 1..Len(items) |->
             IF items[k].product.id = product.id
             THEN [items[k] EXCEPT !.quantity = items[k].quantity + 1]
             ELSE items[k] ]
    ELSE Append(items, [product |-> product, quantity |-> 1,
                        status |-> "pending"])

\* removeFromCart(productId): the new cart
removeFromCartResult(items, productId) ==
    SelectSeq(items, LAMBDA item : item.product.id # productId)

\* updateQuantity that keeps a line whose quantity becomes 0
updateQuantityResult_mut(items, productId, quantity) ==
    [ k \in 1..Len(items) |->
        IF items[k].product.id = productId
        THEN [items[k] EXCEPT !.quantity = quantity]
        ELSE items[k] ]

\* updateQuantity(productId, quantity): the new cart
updateQuantityResult(items, productId, quantity) ==
    IF quantity = 0
    THEN SelectSeq(items, LAMBDA item : item.product.id # productId)
    ELSE [ k \in 1..Len(items) |->
             IF items[k].product.id = productId
             THEN [items[k] EXCEPT !.quantity = quantity]
             ELSE items[k] ]

RECURSIVE orderTotal_mut(_), orderTotal(_), pageTotal(_)

\* placeOrder's total that forgets the quantities
orderTotal_mut(items) ==
    IF items = <<>> THEN 0
    ELSE orderTotal_mut(SubSeq(items, 1, Len(items) - 1))
         + items[Len(items)].product.price

\* placeOrder: state.cart.reduce((sum, item) => sum + item.product.price *
\* item.quantity, 0)
orderTotal(items) ==
    IF items = <<>> THEN 0
    ELSE orderTotal(SubSeq(items, 1, Len(items) - 1))
         + items[Len(items)].product.price * items[Len(items)].quantity

\* the total the cart page and the checkout page show: the same reduce
pageTotal(items) ==
    IF items = <<>> THEN 0
    ELSE pageTotal(SubSeq(items, 1, Len(items) - 1))
         + items[Len(items)].product.price * items[Len(items)].quantity

\* placeOrder: the order built from the cart (its random id and its dates
\* are left out)
newOrder(items) ==
    [ items |-> [ k \in 1..Len(items) |->
                    [items[k] EXCEPT !.status = "processing"] ],
      total |-> orderTotal(items),
      status |-> "processing" ]

StoreOp(kind, productId) ==
    /\ storeOps < MaxStoreOps
    /\ storeOps' = storeOps + 1
    /\ lastStoreOp' = [kind |-> kind, id |-> productId]
    /\ UNCHANGED configuratorVars

\* ProductPage: the Add to Cart button
addToCart(product) ==
    /\ StoreOp("addToCart", product.id)
    /\ cart' = addToCartResult(cart, product)
    /\ UNCHANGED orders

\* Cart: the bin button of a line
removeFromCart(k) ==
    /\ k \in 1..Len(cart)
    /\ StoreOp("removeFromCart", cart[k].product.id)
    /\ cart' = removeFromCartResult(cart, cart[k].product.id)
    /\ UNCHANGED orders

\* Cart: the minus button of a line,
\* updateQuantity(item.product.id, Math.max(0, item.quantity - 1))
minusQuantity(k) ==
    /\ k \in 1..Len(cart)
    /\ StoreOp("minus", cart[k].product.id)
    /\ cart' = updateQuantityResult(cart, cart[k].product.id,
                   IF cart[k].quantity - 1 > 0 THEN cart[k].quantity - 1
                   ELSE 0)
    /\ UNCHANGED orders

\* Cart: the plus button of a line,
\* updateQuantity(item.product.id, item.quantity + 1)
plusQuantity(k) ==
    /\ k \in 1..Len(cart)
    /\ StoreOp("plus", cart[k].product.id)
    /\ cart' = updateQuantityResult(cart, cart[k].product.id,
                                    cart[k].quantity + 1)
    /\ UNCHANGED orders

\* Checkout: handleSubmit calls placeOrder; the form is rendered only while
\* the cart is not empty
placeOrder ==
    /\ cart # <<>>
    /\ StoreOp("placeOrder", "none")
    /\ orders' = Append(orders, newOrder(cart))
    /\ cart' = <<>>

NextStore ==
    \/ \E product \in Products : addToCart(product)
    \/ \E k \in 1..MaxStoreOps : removeFromCart(k)
    \/ \E k \in 1..MaxStoreOps : minusQuantity(k)
    \/ \E k \in 1..MaxStoreOps : plusQuantity(k)
    \/ placeOrder

SpecStore == Init /\ [][NextStore]_vars

----------------------------------------------------------------------------
(* Claims C1 - C10 *)

\* C1: in the studio a closed door with horizontal offset 0 is centred on
\* its wall: the midpoint of the door panel is at world x = 0 on the
\* front / back walls and at world z = 0 on the left / right walls.
C1_DoorCentredAtOffsetZero ==
    (variant = "studio" /\ doorHorizontalOffset = 0) =>
        /\ doorWall \in {"front", "back"} => DoorPanelCentre[1] = 0
        /\ doorWall \in {"left", "right"} => DoorPanelCentre[3] = 0

\* C2 (as claimed): every wall plane is centred on its face of the room box,
\* has that face's size, and its normal points away from the room centre.
C2_WallNormalsOutward ==
    \A wall \in WallSelector :
        LET m == RenderedWall(wall)
            H == roomHeight \div 2
        IN  /\ wall = "front" => /\ m.position = << 0, H, roomLength \div 2 >>
                                 /\ m.size = << roomWidth, roomHeight >>
                                 /\ PlaneNormal(m) = << 0, 0, 1 >>
            /\ wall = "back"  => /\ m.position = << 0, H, -(roomLength \div 2) >>
                                 /\ m.size = << roomWidth, roomHeight >>
                                 /\ PlaneNormal(m) = << 0, 0, -1 >>
            /\ wall = "left"  => /\ m.position = << -(roomWidth \div 2), H, 0 >>
                                 /\ m.size = << roomLength, roomHeight >>
                                 /\ PlaneNormal(m) = << -1, 0, 0 >>
            /\ wall = "right" => /\ m.position = << roomWidth \div 2, H, 0 >>
                                 /\ m.size = << roomLength, roomHeight >>
                                 /\ PlaneNormal(m) = << 1, 0, 0 >>

\* C2 (amended): every wall plane is centred on its face of the room box and
\* has that face's size; it is rotated about the vertical axis by 0 (front
\* of the studio, back), 180 (front of the basic variant), +90 (left) or
\* -90 degrees (right), so that its normal lies along the face's axis and
\* points into the room, except on the studio's front wall, where it points
\* outward.
C2_WallPlanes ==
    \A wall \in WallSelector :
        LET m == RenderedWall(wall)
            H == roomHeight \div 2
        IN  /\ wall = "front" =>
                 /\ m.position = << 0, H, roomLength \div 2 >>
                 /\ m.size = << roomWidth, roomHeight >>
                 /\ variant = "studio" => /\ m.rotation = 0
                                          /\ PlaneNormal(m) = << 0, 0, 1 >>
                 /\ variant = "basic"  => /\ m.rotation = 180
                                          /\ PlaneNormal(m) = << 0, 0, -1 >>
            /\ wall = "back" =>
                 /\ m.position = << 0, H, -(roomLength \div 2) >>
                 /\ m.size = << roomWidth, roomHeight >>
                 /\ m.rotation = 0
                 /\ PlaneNormal(m) = << 0, 0, 1 >>
            /\ wall = "left" =>
                 /\ m.position = << -(roomWidth \div 2), H, 0 >>
                 /\ m.size = << roomLength, roomHeight >>
                 /\ m.rotation = 90
                 /\ PlaneNormal(m) = << 1, 0, 0 >>
            /\ wall = "right" =>
                 /\ m.position = << roomWidth \div 2, H, 0 >>
                 /\ m.size = << roomLength, roomHeight >>
                 /\ m.rotation = -90
                 /\ PlaneNormal(m) = << -1, 0, 0 >>

\* C2 witness: a room whose width, length and height are all positive, none
\* at its default, and whose width and length differ.
C2_Witness ==
    /\ roomWidth = 6000 /\ roomLength = 2000
    /\ roomHeight > 0 /\ roomHeight # 4000

\* C3: getDoorTransform places the door group at (-dw/2 + off, 0, L/2) with
\* rotation 0 on the front wall, (-dw/2 + off, 0, -L/2) with 180 degrees on
\* the back, (-W/2, 0, -dw/2 + off) with +90 on the left and
\* (W/2, 0, -dw/2 + off) with -90 on the right; for room 8x8x4 and offset 0
\* the front gives x = -dw/2, z = 4 and the left x = -4, z = -dw/2.
C3_DoorTransform ==
    LET dw  == doorWidth
        off == doorHorizontalOffset
        f == getDoorTransform("front")
        b == getDoorTransform("back")
        l == getDoorTransform("left")
        r == getDoorTransform("right")
    IN  /\ f = [position |-> << off - dw \div 2, 0, roomLength \div 2 >>,
                rotation |-> 0]
        /\ b = [position |-> << off - dw \div 2, 0, 0 - roomLength \div 2 >>,
                rotation |-> 180]
        /\ l = [position |-> << 0 - roomWidth \div 2, 0, off - dw \div 2 >>,
                rotation |-> 90]
        /\ r = [position |-> << roomWidth \div 2, 0, off - dw \div 2 >>,
                rotation |-> -90]
        /\ (roomWidth = 8000 /\ roomLength = 8000 /\ roomHeight = 4000 /\ off = 0) =>
               /\ f.position[1] = 0 - dw \div 2 /\ f.position[3] = 4000
               /\ f.rotation = 0
               /\ l.position[1] = -4000 /\ l.position[3] = 0 - dw \div 2
               /\ l.rotation = 90

\* C3 witness: the studio shows the door on the left wall of a non-default
\* room with a non-zero offset.
C3_Witness ==
    /\ variant = "studio" /\ doorWall = "left"
    /\ doorHorizontalOffset # 0 /\ roomWidth \notin {0, 8000}

\* C4: getDoorOffsetLimits returns min = -(E/2 - dw/2) and max = E/2 - dw/2,
\* E being the room width for a door on the front / back wall and the room
\* length for a door on the left / right wall, of the current state.
C4_DoorOffsetLimits ==
    LET E == CASE doorWall \in {"front", "back"} -> roomWidth
               [] doorWall \in {"left", "right"} -> roomLength
    IN  /\ getDoorOffsetLimits.min = 0 - (E \div 2 - doorWidth \div 2)
        /\ getDoorOffsetLimits.max = E \div 2 - doorWidth \div 2

\* C4 witness: a door of non-default width on a side wall of a room whose
\* width and length differ.
C4_Witness ==
    /\ variant = "studio" /\ doorWall \in {"left", "right"}
    /\ roomWidth # roomLength /\ doorWidth # 1200

\* C5: an offset typed into the studio's "Position on Wall" field that lies
\* outside the limits of getDoorOffsetLimits is rejected, so that after the
\* field's handler the stored door offset lies within the current limits.
C5_DoorOffsetWithinLimits ==
    (variant = "studio" /\ lastEvent = "onChangeDoorHorizontalOffset") =>
        /\ getDoorOffsetLimits.min <= doorHorizontalOffset
        /\ doorHorizontalOffset <= getDoorOffsetLimits.max

\* C6: in every state of the studio the door width is within [0.6, 2.0] and
\* the door height within [1.8, 0.9 x room height].
C6_DoorSizeWithinBounds ==
    variant = "studio" =>
        /\ doorWidthMin <= doorWidth /\ doorWidth <= doorWidthMax
        /\ doorHeightMin <= doorHeight /\ doorHeight <= doorHeightMax

\* C7: in every state of the studio the window's heightFromFloor is within
\* [0.3, roomHeight - windowHeight - 0.3].
C7_WindowHeightFromFloorWithinBounds ==
    variant = "studio" =>
        /\ windowFloorMin <= windowHeightFromFloor
        /\ windowHeightFromFloor <= windowFloorMax

\* C8: the centre of the studio's window is (a) at height
\* heightFromFloor + windowHeight/2, (b) displaced along the wall by exactly
\* horizontalOffset from the wall centre, (c) 0.1 outside the wall plane.
C8_WindowPlacement ==
    variant = "studio" =>
        LET c == WindowCentre
        IN  /\ c[2] = windowHeightFromFloor + windowHeight \div 2
            /\ windowWall = "front" => /\ c[1] = windowHorizontalOffset
                                       /\ c[3] = roomLength \div 2 + 100
            /\ windowWall = "back"  => /\ c[1] = windowHorizontalOffset
                                       /\ c[3] = 0 - roomLength \div 2 - 100
            /\ windowWall = "left"  => /\ c[3] = windowHorizontalOffset
                                       /\ c[1] = 0 - roomWidth \div 2 - 100
            /\ windowWall = "right" => /\ c[3] = windowHorizontalOffset
                                       /\ c[1] = roomWidth \div 2 + 100

\* C9: getInsidePosition returns the point 1 unit inward from the door wall
\* at half the room height (front (0, H/2, L/2 - 1), back (0, H/2, -L/2 + 1),
\* left (-W/2 + 1, H/2, 0), right (W/2 - 1, H/2, 0); back in room 8x8x4 gives
\* (0, 2, -3)), and after Go Inside the camera target is that point for the
\* current door wall and room.
C9_InsidePosition ==
    LET W == roomWidth
        L == roomLength
        H == roomHeight
        inside == [wall \in WallSelector |-> getInsidePosition(wall, W, L, H)]
    IN  /\ inside["front"] = << 0, H \div 2, L \div 2 - 1000 >>
        /\ inside["back"]  = << 0, H \div 2, 1000 - L \div 2 >>
        /\ inside["left"]  = << 1000 - W \div 2, H \div 2, 0 >>
        /\ inside["right"] = << W \div 2 - 1000, H \div 2, 0 >>
        /\ getInsidePosition("back", 8000, 8000, 4000) = << 0, 2000, -3000 >>
        /\ lastEvent \in {"handleGoInside", "handleGoInsideBasic"} =>
              /\ doorWall = "front" => cameraTarget = << 0, H \div 2, L \div 2 - 1000 >>
              /\ doorWall = "back"  => cameraTarget = << 0, H \div 2, 1000 - L \div 2 >>
              /\ doorWall = "left"  => cameraTarget = << 1000 - W \div 2, H \div 2, 0 >>
              /\ doorWall = "right" => cameraTarget = << W \div 2 - 1000, H \div 2, 0 >>

\* C9 witness: Go Inside was just pressed with the door on a side wall of a
\* room of non-default width.
C9_Witness ==
    /\ lastEvent \in {"handleGoInside", "handleGoInsideBasic"}
    /\ doorWall \in {"left", "right"} /\ roomWidth = 6000

\* C10: the initial camera target is (0, 5, 10), and after Exit Room the
\* camera target is (0, 5, 10) whatever the state was before.
C10_ExteriorCamera ==
    /\ lastEvent = "mount" => cameraTarget = << 0, 5000, 10000 >>
    /\ lastEvent \in {"handleExitRoom", "handleExitRoomBasic"} =>
           cameraTarget = << 0, 5000, 10000 >>

\* C10 witness: Exit Room was just pressed in the studio, in a room of
\* non-default height with the door moved off the front wall.
C10_Witness ==
    /\ lastEvent = "handleExitRoom"
    /\ roomHeight \notin {0, 4000}
    /\ doorWall # "front"

----------------------------------------------------------------------------
(* Claims C11 - C20 *)

\* C11: the Door is a two-state toggle that starts closed: after n clicks on
\* a mounted Door it is open exactly when n is odd, onToggle has been called
\* with the state after the last click, and every frame moves the panel
\* towards 0 while closed and towards -90 degrees while open.
C11_DoorToggle ==
    /\ [](/\ open <=> (clicks % 2 = 1)
          /\ toggled = (IF clicks = 0 THEN "none"
                        ELSE IF clicks % 2 = 1 THEN "open" ELSE "closed"))
    /\ [][doorTicks' = doorTicks + 1 =>
            LET aim == IF open THEN -100 ELSE 0
                gap == IF rotationY >= aim THEN rotationY - aim
                       ELSE aim - rotationY
                gapAfter == IF rotationY' >= aim THEN rotationY' - aim
                            ELSE aim - rotationY'
            IN  /\ gapAfter <= gap
                /\ gap >= 10 => gapAfter < gap]_vars

C11_Witness ==
    /\ clicks = 3
    /\ open
    /\ toggled = "open"
    /\ doorTicks > 0
    /\ rotationY < 0

C13_EaseAfter100 ==
    /\ easeLo <= easeHi
    /\ easeN = 100 => (easeLo > 41000 /\ easeHi < 42000)
    /\ easeN < 136 => easeLo > 1000
    /\ easeN >= 136 => easeHi <= 1000

C13_Witness == easeN = 136 /\ easeHi <= 1000

\* C13 as stated: after 100 frames the angle is within 1e-6 rad of
\* -Math.PI / 2
C13_Within1e6After100 == easeN = 100 => easeLo <= 1000

\* C14: in walk mode the camera sits on the camera target: entering walk
\* mode or changing the target there puts the position on the target in
\* that one step, and frames leave it alone.  In orbit mode every frame
\* moves each coordinate by 0.05 of what is left to the target (to the
\* millimetre), and no step puts a camera that was elsewhere on the target.
C14_CameraMotion ==
    /\ [](navMode = "walk" => cameraPosition = cameraTarget)
    /\ [][/\ (navMode' = "walk" /\ (navMode # "walk" \/ cameraTarget' # cameraTarget))
             => cameraPosition' = cameraTarget'
          /\ (navMode = "walk" /\ camTicks' = camTicks + 1)
             => cameraPosition' = cameraPosition
          /\ (navMode = "orbit" /\ camTicks' = camTicks + 1)
             => \A i \in 1..3 :
                    LET moved == 20 * (cameraPosition'[i] - cameraPosition[i])
                        left == cameraTarget[i] - cameraPosition[i]
                    IN  moved - left <= 10 /\ left - moved <= 10
          /\ (navMode' = "orbit" /\ cameraPosition' # cameraPosition)
             => cameraPosition' # cameraTarget'
          /\ (navMode' = "orbit" /\ camTicks' = camTicks)
             => cameraPosition' = cameraPosition]_vars

\* orbit frames have eased the camera part of the way to a new target, then
\* walk mode was entered: the camera is on the target
C14_Witness ==
    /\ navMode = "walk"
    /\ camTicks >= 2
    /\ cameraTarget # externalCam
    /\ cameraPosition = cameraTarget

\* C15: the ids of the furniture list are pairwise distinct and increase
\* along the list (each added item has an id greater than every earlier
\* one), however closely the adds follow one another.
C15_IdsDistinctIncreasing ==
    \A i, j \in 1..Len(furnitureItems) :
        i < j => furnitureItems[i].id < furnitureItems[j].id

\* C16: Add Furniture appends exactly one item, built from the current
\* fields, to the end of the list, where it occurs exactly once and the
\* earlier items keep their place; removing a listed id deletes exactly one
\* item and leaves the others in their order.
C16_AddRemoveExactlyOne ==
    LET n == Len(furnitureItems)
        m == Len(prevItems)
    IN  /\ lastOp.kind = "add" =>
            /\ n = m + 1
            /\ SubSeq(furnitureItems, 1, m) = prevItems
            /\ furnitureItems[n] =
                   [ id |-> lastOp.id, type |-> furnitureType,
                     color |-> furnitureColor,
                     size |-> IF variant = "studio" THEN furnitureSize
                              ELSE "none",
                     position |-> lastOp.position ]
            /\ Cardinality({k \in 1..n : furnitureItems[k] = furnitureItems[n]}) = 1
        /\ (lastOp.kind = "remove" /\ \E k \in 1..m : prevItems[k].id = lastOp.id) =>
            /\ n = m - 1
            /\ \E k \in 1..m :
                   /\ prevItems[k].id = lastOp.id
                   /\ furnitureItems =
                          SubSeq(prevItems, 1, k - 1) \o SubSeq(prevItems, k + 1, m)

\* C17: a drag end changes only the position of the one item dragged: the
\* list keeps its length and order, every item keeps its id, type, colour
\* and size, and at most one item - one with the id passed - differs from
\* before.
C17_UpdateOnlyThatPosition ==
    lastOp.kind = "update" =>
        /\ Len(furnitureItems) = Len(prevItems)
        /\ \A k \in 1..Len(furnitureItems) :
               /\ furnitureItems[k].id = prevItems[k].id
               /\ furnitureItems[k].type = prevItems[k].type
               /\ furnitureItems[k].color = prevItems[k].color
               /\ furnitureItems[k].size = prevItems[k].size
               /\ furnitureItems[k] # prevItems[k] => prevItems[k].id = lastOp.id
        /\ Cardinality({k \in 1..Len(furnitureItems) :
                            furnitureItems[k] # prevItems[k]}) <= 1

\* C18: removeFurniture(id) and updateFurniture(id, pos) with an id that is
\* not in the list leave the list and every other part of the state as
\* they were, and removing the id just removed changes nothing.
C18_AbsentIdNoOp ==
    /\ []((/\ lastOp.kind \in {"remove", "update"}
           /\ \A k \in 1..Len(prevItems) : prevItems[k].id # lastOp.id)
          => furnitureItems = prevItems)
    /\ [][(/\ furnOps' = furnOps + 1
           /\ lastOp'.kind \in {"remove", "update"}
           /\ \A k \in 1..Len(furnitureItems) : furnitureItems[k].id # lastOp'.id)
          => UNCHANGED <<furnitureItems, furnFields, now, formVars,
                         doorCompVars, easeVars, camVars>>]_vars
    /\ [][(/\ furnOps' = furnOps + 1
           /\ lastOp.kind = "remove" /\ lastOp'.kind = "remove"
           /\ lastOp'.id = lastOp.id)
          => furnitureItems' = furnitureItems]_vars

\* an item was removed, and the same id was removed again while another
\* item was listed: the second call left the list as it was
C18_Witness ==
    /\ lastOp.kind = "remove"
    /\ furnitureItems # <<>>
    /\ furnitureItems = prevItems
    /\ furnOps = 4
    /\ \A k \in 1..Len(furnitureItems) : furnitureItems[k].id # lastOp.id

\* C19: the stored room width, length and height are strictly positive in
\* every reachable state.
C19_RoomDimensionsPositive ==
    /\ roomWidth > 0
    /\ roomLength > 0
    /\ roomHeight > 0

\* C20: once React has rendered, the furniture list is the result of
\* applying every add, remove and position update in the order they were
\* handled, also when two of them were handled between two renders.
C20_EveryMutationReflected == pending = <<>> => furnitureItems = expected

----------------------------------------------------------------------------
(* Claims C21 - C30 *)

C22_WindowOffsetLimits ==
    (variant = "studio" /\ roomWidth # roomLength) =>
        LET extent == IF windowWall \in {"front", "back"} THEN roomWidth
                      ELSE roomLength
        IN  /\ windowOffsetMin = 0 - (Half(extent) - Half(windowWidth))
            /\ windowOffsetMax = Half(extent) - Half(windowWidth)

\* C23: while the user is inside the room (studio: after Go Inside, before
\* Exit Room) the camera target is getInsidePosition of the current door
\* wall and room dimensions.
C23_InsideTargetFollows ==
    (variant = "studio" /\ isInside) =>
        cameraTarget = getInsidePosition(doorWall, roomWidth, roomLength,
                                         roomHeight)

\* C24: in a room with positive dimensions getInsidePosition lies, for
\* every door wall, inside the room box: |x| <= width / 2,
\* |z| <= length / 2 and 0 <= y <= height, hence between the door wall and
\* the wall opposite.
C24_InsidePositionInRoom ==
    (roomWidth > 0 /\ roomLength > 0 /\ roomHeight > 0) =>
        \A wall \in WallSelector :
            LET p == getInsidePosition(wall, roomWidth, roomLength, roomHeight)
            IN  /\ Half(-roomWidth) <= p[1] /\ p[1] <= Half(roomWidth)
                /\ 0 <= p[2] /\ p[2] <= roomHeight
                /\ Half(-roomLength) <= p[3] /\ p[3] <= Half(roomLength)

C26_DoorWallChangeWithinLimits ==
    (variant = "studio" /\ lastEvent = "onChangeDoorWall") =>
        /\ doorHorizontalOffset = 0
        /\ getDoorOffsetLimits.min <= doorHorizontalOffset
        /\ doorHorizontalOffset <= getDoorOffsetLimits.max

\* C27: the studio is never in the 2D view with walk navigation: choosing
\* another view mode while walking puts navigation back to orbit, and
\* choosing walk in the 2D view switches to the 3D view.
C27_Never2DWalk ==
    /\ [](variant = "studio" => ~(viewMode = "2D" /\ navMode = "walk"))
    /\ [][(/\ variant = "studio" /\ edits' = edits + 1
           /\ lastEvent' = "onChangeViewMode" /\ navMode = "walk")
          => navMode' = "orbit"]_vars
    /\ [][(/\ variant = "studio" /\ edits' = edits + 1
           /\ lastEvent' = "onChangeNavMode" /\ viewMode = "2D"
           /\ navMode' = "walk")
          => viewMode' = "3D"]_vars

\* the 2D view was chosen, then walk: the studio is back in the 3D view
C27_Witness ==
    /\ variant = "studio"
    /\ lastEvent = "onChangeNavMode"
    /\ navMode = "walk"
    /\ viewMode = "3D"
    /\ edits = 2
    /\ roomVars = <<8000, 8000, 4000>>
    /\ doorVars = <<1200, 2100, 0, "front">>
    /\ ~isInside

\* C28: in the studio, while the user is not inside, the camera target is
\* the exterior position of the view mode - (0, 5, 10) in 3D,
\* (0, 2 x roomHeight, 0) in 2D with the current room height - and while
\* the user is inside, a change of the view mode or of the room height
\* leaves the camera target as it was.
C28_ExteriorTargetByViewMode ==
    /\ []((variant = "studio" /\ ~isInside) =>
            cameraTarget = IF viewMode = "3D" THEN << 0, 5000, 10000 >>
                           ELSE << 0, 2 * roomHeight, 0 >>)
    /\ [][(/\ variant = "studio" /\ isInside /\ isInside'
           /\ (viewMode' # viewMode \/ roomHeight' # roomHeight))
          => cameraTarget' = cameraTarget]_vars

\* the 2D view was chosen outside the room and the room height changed
\* afterwards
C28_Witness ==
    /\ variant = "studio"
    /\ ~isInside
    /\ viewMode = "2D"
    /\ lastEvent = "onChangeRoomHeight"
    /\ roomHeight = 6000
    /\ cameraTarget = << 0, 12000, 0 >>

\* C29: placeOrder appends exactly one order and empties the cart: the
\* order's items are the cart's lines, product by product and quantity by
\* quantity, each with status processing; its status is processing; its
\* total is the total the cart and checkout pages showed; the orders placed
\* before stay as they were, in their order.
C29_PlaceOrder ==
    [][(storeOps' = storeOps + 1 /\ lastStoreOp'.kind = "placeOrder") =>
         LET n == Len(orders)
             order == orders'[n + 1]
         IN  /\ Len(orders') = n + 1
             /\ SubSeq(orders', 1, n) = orders
             /\ cart' = <<>>
             /\ Len(order.items) = Len(cart)
             /\ \A k \in 1..Len(cart) :
                    /\ order.items[k].product = cart[k].product
                    /\ order.items[k].quantity = cart[k].quantity
                    /\ order.items[k].status = "processing"
             /\ order.status = "processing"
             /\ order.total = pageTotal(cart)]_vars

\* an order of two lines, one of them with quantity 2, has just been placed
C29_Witness ==
    /\ lastStoreOp.kind = "placeOrder"
    /\ cart = <<>>
    /\ Len(orders) = 1
    /\ Len(orders[1].items) = 2
    /\ orders[1].items[1].quantity = 2
    /\ orders[1].total = 2 * orders[1].items[1].product.price
                           + orders[1].items[2].product.price

\* C30: the cart holds at most one line per product id and every line has
\* quantity >= 1; addToCart of a product in the cart adds 1 to that line's
\* quantity and adds no line, addToCart of another product appends a line
\* of quantity 1, and the minus button on a line of quantity 1 removes the
\* line.
C30_CartLines ==
    /\ [](/\ \A i, j \in 1..Len(cart) :
                i # j => cart[i].product.id # cart[j].product.id
          /\ \A k \in 1..Len(cart) : cart[k].quantity >= 1)
    /\ [][(storeOps' = storeOps + 1 /\ lastStoreOp'.kind = "addToCart") =>
            IF InCart(cart, lastStoreOp'.id)
            THEN /\ Len(cart') = Len(cart)
                 /\ \A k \in 1..Len(cart) :
                        /\ cart'[k].product = cart[k].product
                        /\ cart'[k].quantity =
                              IF cart[k].product.id = lastStoreOp'.id
                              THEN cart[k].quantity + 1 ELSE cart[k].quantity
            ELSE /\ Len(cart') = Len(cart) + 1
                 /\ SubSeq(cart', 1, Len(cart)) = cart
                 /\ cart'[Len(cart')].product.id = lastStoreOp'.id
                 /\ cart'[Len(cart')].quantity = 1]_vars
    /\ [][(/\ storeOps' = storeOps + 1 /\ lastStoreOp'.kind = "minus"
           /\ \E k \in 1..Len(cart) :
                  cart[k].product.id = lastStoreOp'.id /\ cart[k].quantity = 1)
          => /\ ~InCart(cart', lastStoreOp'.id)
             /\ Len(cart') = Len(cart) - 1]_vars

\* the minus button removed a line of quantity 1 while another product's
\* line, added twice, stayed with quantity 2
C30_Witness ==
    /\ lastStoreOp.kind = "minus"
    /\ Len(cart) = 1
    /\ cart[1].quantity = 2
    /\ cart[1].product.id # lastStoreOp.id

====
